---------------------------- MODULE Spec2Model ----------------------------
(***************************************************************************)
(* A model of itunes_to_navidrome.py: the suffix index and path matcher,   *)
(* the annotation upsert, and the run of main() inside one transaction.    *)
(*                                                                         *)
(* Encodings.                                                              *)
(*  - An optional value (Python None / SQL NULL) is the empty tuple << >>, *)
(*    a present value v is the one-element tuple <<v>>.                    *)
(*  - A path is the sequence of its segments (the result of                *)
(*    replace('\\', '/').split('/')).  A segment holds no '/', so joining  *)
(*    segments with '/' is injective and a suffix key is kept as the       *)
(*    sequence of its lower-cased segments.  A NULL path is << >>; the     *)
(*    empty string is the path of one empty segment.                       *)
(*  - A timestamp is a natural number; the ISO strings the program         *)
(*    compares are fixed-width, so their string order is this order.       *)
(*  - A table is the sequence of its rows in rowid order.                  *)
(***************************************************************************)
EXTENDS Integers, Sequences, FiniteSets, TLC

VARIABLES
    media_file,         \* media_file table: rows [id, path, album_id, artist_id, created_at]
    path_index,         \* index['by_suffix'] built by build_navidrome_path_index
    ambiguous_matches,  \* main's ambiguous_matches list
    annotation,         \* annotation table as seen inside the open transaction
    has_rated_at,       \* 'rated_at' in get_annotation_columns(conn)
    playlist,           \* playlist table with its playlist_tracks, inside the transaction
    committed,          \* the tables as committed to navidrome.db
    before_run,         \* history: the committed tables when main() started
    args,               \* args.dry_run, args.replace, args.user_id
    import_options,     \* the ImportOptions of the run
    tracks,             \* the Tracks of the iTunes library, in file order
    playlists,          \* the user playlists extract_playlists returned
    pc,                 \* where main() is
    idx,                \* the next track or playlist of the running loop
    stats,              \* main's stats
    date_added_stats,   \* the stats of migrate_date_added
    playlist_stats,     \* the stats of migrate_all_playlists
    not_found_paths,    \* main's not_found_paths list
    last,               \* history: the arguments and pre-state of the last call
    ncalls              \* history: number of calls made so far

matchVars == <<media_file, path_index, ambiguous_matches>>
mergeVars == <<annotation, has_rated_at>>
runVars == <<playlist, committed, before_run, args, import_options, tracks, playlists, pc, idx, stats, date_added_stats, playlist_stats, not_found_paths>>
vars == <<media_file, path_index, ambiguous_matches, annotation, has_rated_at, playlist, committed, before_run, args, import_options, tracks, playlists, pc, idx, stats, date_added_stats, playlist_stats, not_found_paths, last, ncalls>>

----------------------------------------------------------------------------
(* Bounds of the model *)

MaxUsers  == 2      \* user ids 1..MaxUsers
MaxItems  == 2      \* item ids 1..MaxItems
MaxPlay   == 1      \* play counts passed to one call: 0..MaxPlay
MaxRating == 1      \* ratings passed to one call: 0..MaxRating
MaxDate   == 1      \* timestamps 1..MaxDate
MaxCalls  == 2      \* update_or_insert_annotation calls in one behaviour
MaxFiles  == 2      \* rows of the media_file table
MaxDepth  == 2      \* segments of a path
MaxTracks == 2      \* tracks of the iTunes library
MaxRuns   == 2      \* runs of main() on one database
MaxItunesRating == 100  \* iTunes ratings 0..MaxItunesRating
MaxLists  == 2      \* user playlists of the iTunes library

----------------------------------------------------------------------------
(* Optional values *)

None == << >>
Some(v) == <<v>>

\* Python's `x or 0` on an optional integer: None and 0 both give 0.
OrZero(o) == IF o = None THEN 0 ELSE o[1]

\* Python's truth value of an optional integer (`rating and rating > 0`).
Truthy(o) == o # None /\ o[1] # 0

Min(S) == CHOOSE x \in S : \A y \in S : x <= y

----------------------------------------------------------------------------
(* Path normalisation *)

\* A normalisation that leaves every spelling as it is.
NFCAsIs(segment) == segment

\* unicodedata.normalize('NFC', segment): the decomposed spelling of an accented
\* name becomes the composed one; a segment without combining marks is kept.
NFC(segment) ==
    CASE segment = "Cafe+U0301" -> "Caf+U00E9"
      [] segment = "cafe+U0301" -> "caf+U00E9"
      [] OTHER -> segment

\* str.lower() of a segment.
LowerSegment(segment) ==
    CASE segment = "S" -> "s"
      [] segment = "X" -> "x"
      [] segment = "Cafe+U0301" -> "cafe+U0301"
      [] segment = "Caf+U00E9" -> "caf+U00E9"
      [] OTHER -> segment

\* normalize_unicode(text): None stays None (the NULL path << >> has no segment).
NormalizeUnicode(path) == [k \in 1..Len(path) |-> NFC(path[k])]

\* '/'.join(parts[i:]).lower(), for the 1-based start i.
SuffixKey(parts, i) == [k \in 1..(Len(parts) - i + 1) |-> LowerSegment(parts[i + k - 1])]

EmptyPath == <<"">>

----------------------------------------------------------------------------
(* The suffix index: build_navidrome_path_index *)

EmptyIndex == [key \in {} |-> << >>]

\* index['by_suffix'][suffix].append(file_info), on a defaultdict(list)
AppendToBucket(by_suffix, suffix, file_info) ==
    IF suffix \in DOMAIN by_suffix
    THEN [by_suffix EXCEPT ![suffix] = Append(@, file_info)]
    ELSE [key \in DOMAIN by_suffix \cup {suffix} |->
            IF key = suffix THEN <<file_info>> ELSE by_suffix[key]]

\* An index of filenames only: the last segment is the one suffix indexed.
IndexFilenameOnly(by_suffix, file_info, parts, i) ==
    AppendToBucket(by_suffix, SuffixKey(parts, Len(parts)), file_info)

\* for i in range(len(parts)): the buckets after the starts i..len(parts)
RECURSIVE IndexSuffixes(_, _, _, _)
IndexSuffixes(by_suffix, file_info, parts, i) ==
    IF i > Len(parts)
    THEN by_suffix
    ELSE IndexSuffixes(AppendToBucket(by_suffix, SuffixKey(parts, i), file_info),
                       file_info, parts, i + 1)

\* The body of the loop over cursor.fetchall(): one row indexed.
IndexRow(by_suffix, row) ==
    IF row.path = None
    THEN by_suffix                                  \* normalized_path is None: continue
    ELSE LET normalized_path == NormalizeUnicode(row.path)
             file_info == [id |-> row.id, path |-> normalized_path,
                           album_id |-> row.album_id, artist_id |-> row.artist_id]
         IN  IndexSuffixes(by_suffix, file_info, normalized_path, 1)

RECURSIVE IndexRows(_, _, _)
IndexRows(by_suffix, rows, n) ==
    IF n > Len(rows) THEN by_suffix
    ELSE IndexRows(IndexRow(by_suffix, rows[n]), rows, n + 1)

\* build_navidrome_path_index(conn)['by_suffix']
BuildNavidromePathIndex(rows) == IndexRows(EmptyIndex, rows, 1)

----------------------------------------------------------------------------
(* The path matcher: find_matching_media_file *)

NoMatch == [branch |-> "none", match |-> None, entries |-> << >>]

\* [itunes_path] + [m[1] for m in matches]
AmbiguousEntry(itunes_path, matches) ==
    <<itunes_path>> \o [k \in 1..Len(matches) |-> matches[k].path]

\* A matcher that takes the first record of the first non-empty bucket.
RECURSIVE WidenFirstNonEmpty(_, _, _, _)
WidenFirstNonEmpty(itunes_path, parts, index, i) ==
    IF i < 1
    THEN NoMatch
    ELSE LET suffix == SuffixKey(parts, i)
         IN  IF suffix \in DOMAIN index
             THEN [branch |-> "unique", match |-> Some(index[suffix][1]), entries |-> << >>]
             ELSE WidenFirstNonEmpty(itunes_path, parts, index, i - 1)

\* A matcher that gives up at the first bucket holding several records.
RECURSIVE WidenStopsOnMany(_, _, _, _)
WidenStopsOnMany(itunes_path, parts, index, i) ==
    IF i < 1
    THEN NoMatch
    ELSE LET suffix == SuffixKey(parts, i)
         IN  IF suffix \in DOMAIN index
             THEN IF Len(index[suffix]) = 1
                  THEN [branch |-> "unique", match |-> Some(index[suffix][1]),
                        entries |-> << >>]
                  ELSE [branch |-> "ambiguous", match |-> Some(index[suffix][1]),
                        entries |-> <<AmbiguousEntry(itunes_path, index[suffix])>>]
             ELSE WidenStopsOnMany(itunes_path, parts, index, i - 1)

\* A matcher that reports an ambiguity but lists only the record it returns.
RECURSIVE WidenListsFirstOnly(_, _, _, _)
WidenListsFirstOnly(itunes_path, parts, index, i) ==
    IF i < 1
    THEN NoMatch
    ELSE LET suffix == SuffixKey(parts, i)
         IN  IF suffix \in DOMAIN index
             THEN LET matches == index[suffix]
                  IN  IF Len(matches) = 1
                      THEN [branch |-> "unique", match |-> Some(matches[1]),
                            entries |-> << >>]
                      ELSE IF Len(matches) > 1 /\ i = 1
                      THEN [branch |-> "ambiguous", match |-> Some(matches[1]),
                            entries |-> <<AmbiguousEntry(itunes_path, <<matches[1]>>)>>]
                      ELSE WidenListsFirstOnly(itunes_path, parts, index, i - 1)
             ELSE WidenListsFirstOnly(itunes_path, parts, index, i - 1)

\* for i in range(len(parts) - 1, -1, -1), from the 1-based start i down to 1:
\* what the loop returns, and the entries it has for ambiguous_matches.
RECURSIVE Widen(_, _, _, _)
Widen(itunes_path, parts, index, i) ==
    IF i < 1
    THEN NoMatch                                    \* No match found
    ELSE LET suffix == SuffixKey(parts, i)
         IN  IF suffix \in DOMAIN index
             THEN LET matches == index[suffix]
                  IN  IF Len(matches) = 1
                      THEN [branch |-> "unique", match |-> Some(matches[1]),
                            entries |-> << >>]
                      ELSE IF Len(matches) > 1 /\ i = 1
                      THEN [branch |-> "ambiguous", match |-> Some(matches[1]),
                            entries |-> <<AmbiguousEntry(itunes_path, matches)>>]
                      ELSE Widen(itunes_path, parts, index, i - 1)
             ELSE Widen(itunes_path, parts, index, i - 1)

\* A lookup that reads index['by_suffix'][suffix] without the membership test:
\* the defaultdict gets an empty bucket for every suffix it did not hold.
IndexAfterFindDefaults(itunes_path, index) ==
    IF itunes_path = None \/ itunes_path = EmptyPath
    THEN index
    ELSE LET parts == NormalizeUnicode(itunes_path)
             tried == {SuffixKey(parts, i) : i \in 1..Len(parts)}
         IN  [key \in DOMAIN index \cup tried |->
                 IF key \in DOMAIN index THEN index[key] ELSE << >>]

\* index['by_suffix'] after find_matching_media_file: `suffix in index[...]` and
\* the read of a key that is there leave the defaultdict as it was.
IndexAfterFind(itunes_path, index) == index

\* find_matching_media_file(itunes_path, index, ambiguous_matches): the returned
\* record (None when unmatched), the branch that returned, and the entries the
\* call appends when a list is supplied.
FindMatchingMediaFile(itunes_path, index) ==
    IF itunes_path = None \/ itunes_path = EmptyPath
    THEN NoMatch                                    \* if not itunes_path: return None
    ELSE LET normalized_path == NormalizeUnicode(itunes_path)
         IN  Widen(itunes_path, normalized_path, index, Len(normalized_path))

----------------------------------------------------------------------------
(* The annotation table *)

ItemTypes == {"media_file", "album", "artist"}

KeyOf(row) == <<row.user_id, row.item_id, row.item_type>>

\* WHERE user_id = ? AND item_id = ? AND item_type = ?
RowsWhere(ann, user_id, item_id, item_type) ==
    {k \in 1..Len(ann) : KeyOf(ann[k]) = <<user_id, item_id, item_type>>}

\* A merge that overwrites the play count in Add mode too.
PlayCountOverwritten(existing_play_count, play_count, replace_mode) ==
    OrZero(play_count)

\* A merge that adds the play count in Replace mode too.
PlayCountSummed(existing_play_count, play_count, replace_mode) ==
    existing_play_count + OrZero(play_count)

\* new_play_count of update_or_insert_annotation.
NewPlayCount(existing_play_count, play_count, replace_mode) ==
    IF replace_mode
    THEN OrZero(play_count)
    ELSE existing_play_count + OrZero(play_count)

\* A merge that keeps the higher of the two ratings in Add mode.
RatingHigher(existing_rating, rating, replace_mode) ==
    IF replace_mode THEN OrZero(rating)
    ELSE IF rating[1] > existing_rating THEN rating[1] ELSE existing_rating

\* A merge that keeps a nonzero existing rating in Replace mode.
RatingKept(existing_rating, rating, replace_mode) ==
    IF rating[1] > 0 THEN rating[1] ELSE existing_rating

\* new_rating of update_or_insert_annotation.
NewRating(existing_rating, rating, replace_mode) ==
    IF replace_mode
    THEN OrZero(rating)
    ELSE IF rating[1] > 0 THEN rating[1] ELSE existing_rating

\* A merge that stores the new play date whatever the row held.
PlayDateOverwritten(existing_play_date, play_date) == play_date

\* A merge that keeps the play date of the row whenever it has one.
PlayDateExistingKept(existing_play_date, play_date) ==
    IF existing_play_date # None THEN existing_play_date ELSE play_date

\* new_play_date of update_or_insert_annotation (the same in both modes).
NewPlayDate(existing_play_date, play_date) ==
    IF existing_play_date # None /\ play_date # None
    THEN IF existing_play_date[1] > play_date[1] THEN existing_play_date ELSE play_date
    ELSE IF existing_play_date # None THEN existing_play_date ELSE play_date

\* An insert that stores an absent play count or rating as NULL.
InsertedRowAsGiven(user_id, item_id, item_type, play_count, play_date, rating, rated) ==
    [user_id |-> user_id, item_id |-> item_id, item_type |-> item_type,
     play_count |-> play_count,
     play_date |-> play_date,
     rating |-> rating,
     rated_at |-> IF rated /\ Truthy(rating) THEN play_date ELSE None]

\* The row update_or_insert_annotation inserts when none exists.
InsertedRow(user_id, item_id, item_type, play_count, play_date, rating, rated) ==
    [user_id |-> user_id, item_id |-> item_id, item_type |-> item_type,
     play_count |-> Some(OrZero(play_count)),
     play_date |-> play_date,
     rating |-> Some(OrZero(rating)),
     rated_at |-> IF rated /\ Truthy(rating) THEN play_date ELSE None]

\* An upsert that skips the existence check and always inserts.
UpsertAlwaysInsert(ann, user_id, item_id, item_type, play_count, play_date, rating, replace_mode, rated) ==
    Append(ann, InsertedRow(user_id, item_id, item_type, play_count, play_date, rating, rated))

\* update_or_insert_annotation: the table after the call.
UpdateOrInsertAnnotation(ann, user_id, item_id, item_type, play_count, play_date, rating, replace_mode, rated) ==
    LET hits == RowsWhere(ann, user_id, item_id, item_type)
    IN  IF hits # {}
        THEN
            LET existing == ann[Min(hits)]       \* cursor.fetchone()
                existing_play_count == OrZero(existing.play_count)
                existing_play_date == existing.play_date
                existing_rating == OrZero(existing.rating)
                new_play_count == NewPlayCount(existing_play_count, play_count, replace_mode)
                new_rating == NewRating(existing_rating, rating, replace_mode)
                new_play_date == NewPlayDate(existing_play_date, play_date)
            IN  \* UPDATE annotation SET ... WHERE user_id, item_id, item_type
                [k \in 1..Len(ann) |->
                    IF k \in hits
                    THEN [ann[k] EXCEPT !.play_count = Some(new_play_count),
                                        !.play_date = new_play_date,
                                        !.rating = Some(new_rating)]
                    ELSE ann[k]]
        ELSE
            Append(ann, InsertedRow(user_id, item_id, item_type, play_count, play_date, rating, rated))

----------------------------------------------------------------------------
(* Conversions of iTunes values *)

\* A conversion that rounds to the nearest star.
ConvertRounded(itunes_rating) ==
    IF itunes_rating = None \/ itunes_rating[1] = 0
    THEN 0
    ELSE LET stars == (itunes_rating[1] + 10) \div 20
             at_least_one == IF stars > 1 THEN stars ELSE 1
         IN  IF at_least_one < 5 THEN at_least_one ELSE 5

\* A conversion without the floor of one star for a nonzero rating.
ConvertWithoutFloor(itunes_rating) ==
    IF itunes_rating = None \/ itunes_rating[1] = 0
    THEN 0
    ELSE LET stars == itunes_rating[1] \div 20
         IN  IF stars < 5 THEN stars ELSE 5

\* convert_itunes_rating(itunes_rating): 0-100 to 0-5 stars.
ConvertItunesRating(itunes_rating) ==
    IF itunes_rating = None \/ itunes_rating[1] = 0
    THEN 0
    ELSE LET stars == itunes_rating[1] \div 20
             at_least_one == IF stars > 1 THEN stars ELSE 1
         IN  IF at_least_one < 5 THEN at_least_one ELSE 5

\* convert_itunes_date(itunes_date): a datetime becomes its ISO string (kept as
\* the timestamp it spells), anything else None.
ConvertItunesDate(itunes_date) ==
    IF itunes_date = None THEN None
    ELSE IF itunes_date[1].is_datetime THEN Some(itunes_date[1].at)
    ELSE None

\* extract_path_from_itunes_location(itunes_location).  A location is None or
\* <<path>>, the path being the URL's decoded path; '/C:/...' loses its leading
\* slash, that is its empty first segment.
ExtractPathFromItunesLocation(itunes_location) ==
    IF itunes_location = None
    THEN None
    ELSE LET path == NormalizeUnicode(itunes_location[1])
         IN  IF Len(path) >= 2 /\ path[1] = "" /\ path[2] = "C:" THEN Tail(path) ELSE path

----------------------------------------------------------------------------
(* One track: migrate_track and check_track_for_dry_run *)

\* What migrate_track (dry = FALSE) or check_track_for_dry_run (dry = TRUE)
\* decides for a track before any write: the counter it increments, the values
\* it would merge, and the result of the lookup.
TrackOutcome(itunes_track, options, index, dry) ==
    LET location == itunes_track.Location
        play_count == IF options.import_play_counts THEN OrZero(itunes_track.PlayCount) ELSE 0
        rating == IF options.import_ratings
                  THEN ConvertItunesRating(Some(OrZero(itunes_track.Rating))) ELSE 0
        play_date == IF options.import_play_dates
                     THEN (IF dry THEN itunes_track.PlayDateUTC
                           ELSE ConvertItunesDate(itunes_track.PlayDateUTC))
                     ELSE None
        itunes_path == ExtractPathFromItunesLocation(location)
        found == FindMatchingMediaFile(itunes_path, index)
        values == [play_count |-> play_count, rating |-> rating, play_date |-> play_date,
                   itunes_path |-> itunes_path]
    IN  IF location = None
        THEN [counter |-> "no_location", found |-> NoMatch] @@ values
        ELSE IF play_count = 0 /\ rating = 0 /\ play_date = None
        THEN [counter |-> "no_data", found |-> NoMatch] @@ values
        ELSE IF itunes_path = None \/ itunes_path = EmptyPath
        THEN [counter |-> "path_error", found |-> NoMatch] @@ values
        ELSE IF found.match = None
        THEN [counter |-> "not_found", found |-> found] @@ values
        ELSE [counter |-> "matched", found |-> found] @@ values

\* A migrate_track that writes the track annotation only.
AnnotationTargetsTrackOnly(media) ==
    <<[item_id |-> media.id, item_type |-> "media_file"]>>

\* The annotations migrate_track writes for a matched file, in order: the track,
\* the album if album_id is set, the artist if artist_id is set.
AnnotationTargets(media) ==
    <<[item_id |-> media.id, item_type |-> "media_file"]>>
    \o (IF media.album_id # None
        THEN <<[item_id |-> media.album_id[1], item_type |-> "album"]>> ELSE << >>)
    \o (IF media.artist_id # None
        THEN <<[item_id |-> media.artist_id[1], item_type |-> "artist"]>> ELSE << >>)

\* The annotation table after the first n of the calls migrate_track makes.
RECURSIVE ApplyUpserts(_, _, _, _, _, _, _)
ApplyUpserts(ann, user_id, targets, n, values, replace_mode, rated) ==
    IF n = 0
    THEN ann
    ELSE UpdateOrInsertAnnotation(
             ApplyUpserts(ann, user_id, targets, n - 1, values, replace_mode, rated),
             user_id, targets[n].item_id, targets[n].item_type,
             Some(values.play_count), values.play_date, Some(values.rating),
             replace_mode, rated)

\* Counters that are never incremented.
BumpNothing(counters, counter) == counters

\* Counters incremented by two.
BumpTwice(counters, counter) == [counters EXCEPT ![counter] = @ + 2]

\* stats[counter] += 1
Bump(counters, counter) == [counters EXCEPT ![counter] = @ + 1]

----------------------------------------------------------------------------
(* Date added: migrate_date_added *)

\* What one iteration of migrate_date_added decides for a track: the counter it
\* increments ("skip" for a track left uncounted) and the update it would make.
DateAddedOutcome(track, index) ==
    LET date_added_str == ConvertItunesDate(track.DateAdded)
        itunes_path == ExtractPathFromItunesLocation(track.Location)
        found == FindMatchingMediaFile(itunes_path, index)
    IN  IF track.DateAdded = None \/ date_added_str = None
        THEN [counter |-> "no_date", id |-> None, date |-> None]
        ELSE IF track.Location = None \/ itunes_path = None \/ itunes_path = EmptyPath
        THEN [counter |-> "skip", id |-> None, date |-> None]
        ELSE IF found.match = None
        THEN [counter |-> "not_found", id |-> None, date |-> None]
        ELSE [counter |-> "updated", id |-> Some(found.match[1].id), date |-> date_added_str]

\* A date-added import that writes in a dry run too.
DateAddedWrittenAlways(files, outcome, dry_run) ==
    IF outcome.counter = "updated"
    THEN [k \in 1..Len(files) |->
            IF files[k].id = outcome.id[1]
            THEN [files[k] EXCEPT !.created_at = outcome.date] ELSE files[k]]
    ELSE files

\* The media_file table after one iteration of migrate_date_added:
\* update_media_file_date_added, unless dry_run.
DateAddedWritten(files, outcome, dry_run) ==
    IF outcome.counter = "updated" /\ ~dry_run
    THEN [k \in 1..Len(files) |->
            IF files[k].id = outcome.id[1]
            THEN [files[k] EXCEPT !.created_at = outcome.date] ELSE files[k]]
    ELSE files

----------------------------------------------------------------------------
(* Playlists: migrate_playlist *)

\* A check that finds no playlist.
PlaylistExistsNever(table, name, owner_id) == FALSE

\* playlist_exists(conn, name, owner_id)
PlaylistExists(table, name, owner_id) ==
    \E k \in 1..Len(table) : table[k].name = name /\ table[k].owner_id = owner_id

\* media_file_ids of migrate_playlist: the matched tracks of the first n tracks.
RECURSIVE MatchedIds(_, _, _)
MatchedIds(playlist_tracks, index, n) ==
    IF n = 0
    THEN << >>
    ELSE LET track == playlist_tracks[n]
             itunes_path == ExtractPathFromItunesLocation(track.Location)
             found == FindMatchingMediaFile(itunes_path, index)
             before == MatchedIds(playlist_tracks, index, n - 1)
         IN  IF track.Location = None \/ itunes_path = None \/ itunes_path = EmptyPath
             THEN before
             ELSE IF found.match # None THEN Append(before, found.match[1].id)
             ELSE before

\* unmatched of migrate_playlist: how many located tracks found no file.
UnmatchedCount(playlist_tracks, index) ==
    Cardinality({n \in 1..Len(playlist_tracks) :
        LET itunes_path == ExtractPathFromItunesLocation(playlist_tracks[n].Location)
        IN  /\ playlist_tracks[n].Location # None
            /\ itunes_path # None /\ itunes_path # EmptyPath
            /\ FindMatchingMediaFile(itunes_path, index).match = None})

\* What migrate_playlist decides for a playlist.
PlaylistOutcome(table, user_id, source, index, dry_run) ==
    LET media_file_ids == MatchedIds(source.tracks, index, Len(source.tracks))
    IN  IF ~dry_run /\ PlaylistExists(table, source.name, user_id)
        THEN [counter |-> "skipped_exists", ids |-> << >>]
        ELSE IF media_file_ids = << >>
        THEN [counter |-> "skipped_no_tracks", ids |-> << >>]
        ELSE [counter |-> "created", ids |-> media_file_ids]

\* create_playlist: the playlist row with the first n of its playlist_tracks rows.
CreatedPlaylist(table, name, owner_id, media_file_ids, n) ==
    Append(table, [id |-> Len(table) + 1, name |-> name, owner_id |-> owner_id,
                   song_count |-> Len(media_file_ids),
                   tracks |-> SubSeq(media_file_ids, 1, n)])

\* A playlist import that creates the playlist in a dry run too.
PlaylistWrittenAlways(table, user_id, source, outcome, dry_run) ==
    IF outcome.counter = "created"
    THEN CreatedPlaylist(table, source.name, user_id, outcome.ids, Len(outcome.ids))
    ELSE table

\* The playlist table after migrate_playlist: create_playlist, unless dry_run.
PlaylistWritten(table, user_id, source, outcome, dry_run) ==
    IF outcome.counter = "created" /\ ~dry_run
    THEN CreatedPlaylist(table, source.name, user_id, outcome.ids, Len(outcome.ids))
    ELSE table

----------------------------------------------------------------------------
(* The transaction of main() *)

Tables(ann, files, lists) == [annotation |-> ann, media_file |-> files, playlist |-> lists]

\* A handler that commits what was written before the exception.
ExceptCommits(dry_run, working, durable) ==
    [working |-> working, durable |-> IF dry_run THEN durable ELSE working]

\* except Exception: conn.rollback() unless dry_run; the tables inside the
\* connection and the committed tables afterwards.
ExceptRollsBack(dry_run, working, durable) ==
    [working |-> IF dry_run THEN working ELSE durable, durable |-> durable]

\* conn.commit() unless dry_run: the committed tables afterwards.
CommitUnlessDryRun(dry_run, working, durable) ==
    IF dry_run THEN durable ELSE working

----------------------------------------------------------------------------
(* The annotation merger on its own: any sequence of calls *)

UserIds == 1..MaxUsers
ItemIds == 1..MaxItems
PlayCounts == {None} \cup {Some(n) : n \in 0..MaxPlay}
Ratings == {Some(n) : n \in 0..MaxRating}
OptRatings == {None} \cup Ratings
Dates == {None} \cup {Some(d) : d \in 1..MaxDate}

NoCall == [op |-> "none"]

\* A row another writer (Navidrome itself) left for user 1's media file 1,
\* with every column NULL or every column set.
ForeignRow(set) ==
    [user_id |-> 1, item_id |-> 1, item_type |-> "media_file",
     play_count |-> IF set THEN Some(MaxPlay + 1) ELSE None,
     play_date |-> IF set THEN Some(MaxDate + 1) ELSE None,
     rating |-> IF set THEN Some(MaxRating + 1) ELSE None,
     rated_at |-> None]

\* The same row played before every timestamp of the calls.
EarlyRow == [ForeignRow(TRUE) EXCEPT !.play_date = Some(0)]

InitStores == {<< >>, <<ForeignRow(FALSE)>>, <<ForeignRow(TRUE)>>, <<EarlyRow>>}

\* The counters as main() and the two import functions initialise them.
NoStats ==
    [total |-> 0, matched |-> 0, not_found |-> 0, no_location |-> 0, no_data |-> 0,
     path_error |-> 0]
NoDateAddedStats == [total |-> 0, updated |-> 0, no_date |-> 0, not_found |-> 0, skip |-> 0]
NoPlaylistStats ==
    [total |-> 0, created |-> 0, skipped_exists |-> 0, skipped_no_tracks |-> 0,
     tracks_matched |-> 0, tracks_unmatched |-> 0]

\* The run variables while no run is modelled.
NoRun ==
    /\ playlist = << >>
    /\ committed = [annotation |-> << >>, media_file |-> << >>, playlist |-> << >>]
    /\ before_run = committed
    /\ args = [dry_run |-> FALSE, replace |-> FALSE, user_id |-> 1]
    /\ import_options = [import_play_counts |-> TRUE, import_ratings |-> TRUE,
                         import_play_dates |-> TRUE, import_date_added |-> FALSE,
                         import_playlists |-> FALSE]
    /\ tracks = << >>
    /\ playlists = << >>
    /\ pc = "idle"
    /\ idx = 0
    /\ stats = NoStats
    /\ date_added_stats = NoDateAddedStats
    /\ playlist_stats = NoPlaylistStats
    /\ not_found_paths = << >>

InitMerge ==
    /\ media_file = << >>
    /\ path_index = EmptyIndex
    /\ ambiguous_matches = << >>
    /\ annotation \in InitStores
    /\ has_rated_at \in BOOLEAN
    /\ NoRun
    /\ last = NoCall
    /\ ncalls = 0

\* `rating > 0` with rating None: the Add-mode branch of a call that found a row
\* raises TypeError, before the UPDATE.
RatingTypeError(ann, user_id, item_id, item_type, rating, replace_mode) ==
    /\ RowsWhere(ann, user_id, item_id, item_type) # {}
    /\ ~replace_mode
    /\ rating = None

\* One call of update_or_insert_annotation(conn, ...) that raises.
UpsertRaises(user_id, item_id, item_type, play_count, play_date, rating, replace_mode) ==
    /\ ncalls < MaxCalls
    /\ RatingTypeError(annotation, user_id, item_id, item_type, rating, replace_mode)
    /\ last' = [op |-> "raised",
                key |-> <<user_id, item_id, item_type>>,
                first |-> IF last.op = "none" THEN annotation ELSE last.first,
                before |-> annotation,
                play_count |-> play_count, play_date |-> play_date, rating |-> rating,
                replace_mode |-> replace_mode]
    /\ ncalls' = ncalls + 1
    /\ UNCHANGED <<annotation, has_rated_at, matchVars, runVars>>

\* One call of update_or_insert_annotation(conn, ...) that returns.
Upsert(user_id, item_id, item_type, play_count, play_date, rating, replace_mode) ==
    /\ ncalls < MaxCalls
    /\ ~RatingTypeError(annotation, user_id, item_id, item_type, rating, replace_mode)
    /\ annotation' = UpdateOrInsertAnnotation(annotation, user_id, item_id, item_type,
                          play_count, play_date, rating, replace_mode, has_rated_at)
    /\ last' = [op |-> "upsert",
                key |-> <<user_id, item_id, item_type>>,
                first |-> IF last.op = "none" THEN annotation ELSE last.first,
                before |-> annotation,
                play_count |-> play_count, play_date |-> play_date, rating |-> rating,
                replace_mode |-> replace_mode]
    /\ ncalls' = ncalls + 1
    /\ UNCHANGED <<has_rated_at, matchVars, runVars>>

\* Calls on one (user, item, type) with every combination of values.
NextMerge ==
    \E play_count \in PlayCounts, play_date \in Dates, rating \in OptRatings,
       replace_mode \in BOOLEAN :
        \/ Upsert(1, 1, "media_file", play_count, play_date, rating, replace_mode)
        \/ UpsertRaises(1, 1, "media_file", play_count, play_date, rating, replace_mode)

SpecMerge == InitMerge /\ [][NextMerge]_vars

\* Calls on every (user, item, type) with one combination of values.
NextKeys ==
    \E user_id \in UserIds, item_id \in ItemIds, item_type \in ItemTypes,
       replace_mode \in BOOLEAN :
        Upsert(user_id, item_id, item_type, Some(1), None, Some(1), replace_mode)

SpecKeys == InitMerge /\ [][NextKeys]_vars

----------------------------------------------------------------------------
(* The matcher on its own: one lookup against any small media_file table *)

Dirs == {"x", "y"}
Files == {"s", "S", "t"}

\* Paths of 1..n segments: directories, then a file name.
RECURSIVE PathsOfLength(_)
PathsOfLength(n) ==
    IF n = 1 THEN {<<f>> : f \in Files}
    ELSE {<<d>> \o p : d \in Dirs, p \in PathsOfLength(n - 1)}

Paths == UNION {PathsOfLength(n) : n \in 1..MaxDepth}

\* media_file rows n..MaxFiles... with ids in rowid order
MediaFileRow(id, path) ==
    [id |-> id, path |-> path, album_id |-> None, artist_id |-> None, created_at |-> None]

MediaFileTables ==
    UNION {{[k \in 1..n |-> MediaFileRow(k, paths[k])] :
                paths \in [1..n -> Paths \cup {None}]} : n \in 1..MaxFiles}

InitMatch ==
    /\ media_file \in MediaFileTables
    /\ path_index = BuildNavidromePathIndex(media_file)
    /\ ambiguous_matches = << >>
    /\ annotation = << >>
    /\ has_rated_at = FALSE
    /\ NoRun
    /\ last = NoCall
    /\ ncalls = 0

\* One call of find_matching_media_file, with or without the ambiguous_matches list.
Find(itunes_path, supplied) ==
    /\ last.op = "none"
    /\ LET found == FindMatchingMediaFile(itunes_path, path_index)
       IN  /\ ambiguous_matches' =
                IF supplied THEN ambiguous_matches \o found.entries ELSE ambiguous_matches
           /\ last' = [op |-> "find", itunes_path |-> itunes_path, supplied |-> supplied,
                       branch |-> found.branch, match |-> found.match]
    /\ path_index' = IndexAfterFind(itunes_path, path_index)
    /\ ncalls' = ncalls + 1
    /\ UNCHANGED <<media_file, mergeVars, runVars>>

NextMatch ==
    \E itunes_path \in Paths \cup {EmptyPath}, supplied \in BOOLEAN :
        Find(itunes_path, supplied)

SpecMatch == InitMatch /\ [][NextMatch]_vars

\* The same call made once more: the same source path, the same index object.
FindAgain ==
    /\ last.op = "find"
    /\ LET found == FindMatchingMediaFile(last.itunes_path, path_index)
       IN  /\ ambiguous_matches' =
                IF last.supplied THEN ambiguous_matches \o found.entries
                ELSE ambiguous_matches
           /\ last' = [op |-> "find_again", itunes_path |-> last.itunes_path,
                       supplied |-> last.supplied,
                       branch |-> found.branch, match |-> found.match,
                       first_branch |-> last.branch, first_match |-> last.match]
    /\ path_index' = IndexAfterFind(last.itunes_path, path_index)
    /\ ncalls' = ncalls + 1
    /\ UNCHANGED <<media_file, mergeVars, runVars>>

NextMatchTwice ==
    \/ \E itunes_path \in Paths \cup {EmptyPath}, supplied \in BOOLEAN :
          Find(itunes_path, supplied)
    \/ FindAgain

SpecMatchTwice == InitMatch /\ [][NextMatchTwice]_vars

----------------------------------------------------------------------------
(* A run of main(): tracks, date added, playlists, commit or rollback *)

\* The media_file table of the runs: two files of one album in two directories,
\* the second without an artist.
RunFiles ==
    <<[id |-> 1, path |-> <<"x", "s">>, album_id |-> Some(1), artist_id |-> Some(1),
       created_at |-> None],
      [id |-> 2, path |-> <<"y", "s">>, album_id |-> Some(1), artist_id |-> None,
       created_at |-> None]>>

Datetime(at) == Some([is_datetime |-> TRUE, at |-> at])

\* Tracks of the library: one with every value, matching file 1; one with a play
\* count only, matching file 2; one whose file is not in Navidrome; one without
\* a Location.
LibraryTracks ==
    {[Location |-> Some(<<"C:", "x", "S">>), PlayCount |-> Some(MaxPlay), Rating |-> Some(60),
      PlayDateUTC |-> Datetime(MaxDate), DateAdded |-> Datetime(1)],
     [Location |-> Some(<<"", "C:", "y", "s">>), PlayCount |-> Some(1), Rating |-> None,
      PlayDateUTC |-> None, DateAdded |-> None],
     [Location |-> Some(<<"y", "t">>), PlayCount |-> Some(1), Rating |-> Some(100),
      PlayDateUTC |-> None, DateAdded |-> Datetime(1)],
     [Location |-> None, PlayCount |-> Some(1), Rating |-> None,
      PlayDateUTC |-> None, DateAdded |-> None]}

Libraries == UNION {[1..n -> LibraryTracks] : n \in 1..MaxTracks}

\* The user playlists of a library: one of all its tracks, one of its last track.
PlaylistsOf(library) ==
    <<[name |-> "A", tracks |-> library],
      [name |-> "B", tracks |-> <<library[Len(library)]>>]>>

ExistingPlaylist ==
    [id |-> 1, name |-> "A", owner_id |-> 1, song_count |-> 1, tracks |-> <<2>>]

\* navidrome.db before the run: empty tables, or an annotation and a playlist.
Databases ==
    {Tables(<< >>, RunFiles, << >>),
     Tables(<<ForeignRow(TRUE)>>, RunFiles, <<ExistingPlaylist>>)}

AllImportOptions ==
    [import_play_counts : BOOLEAN, import_ratings : BOOLEAN, import_play_dates : BOOLEAN,
     import_date_added : BOOLEAN, import_playlists : BOOLEAN]

InitRun ==
    /\ committed \in Databases
    /\ before_run = committed
    /\ media_file = committed.media_file
    /\ annotation = committed.annotation
    /\ playlist = committed.playlist
    /\ has_rated_at \in BOOLEAN
    /\ path_index = BuildNavidromePathIndex(media_file)
    /\ args \in [dry_run : BOOLEAN, replace : BOOLEAN, user_id : {1}]
    /\ import_options \in AllImportOptions
    /\ tracks \in Libraries
    /\ playlists = IF import_options.import_playlists THEN PlaylistsOf(tracks) ELSE << >>
    /\ pc = "tracks"
    /\ idx = 1
    /\ stats = NoStats
    /\ date_added_stats = NoDateAddedStats
    /\ playlist_stats = NoPlaylistStats
    /\ not_found_paths = << >>
    /\ ambiguous_matches = << >>
    /\ last = NoCall
    /\ ncalls = 0

ImportsAnnotations ==
    \/ import_options.import_play_counts
    \/ import_options.import_ratings
    \/ import_options.import_play_dates

\* One iteration of `for _, track in tracks.items()`: migrate_track, or
\* check_track_for_dry_run in a dry run.
TrackStep ==
    /\ pc = "tracks"
    /\ ImportsAnnotations
    /\ idx <= Len(tracks)
    /\ LET outcome == TrackOutcome(tracks[idx], import_options, path_index, args.dry_run)
           targets == AnnotationTargets(outcome.found.match[1])
       IN  /\ stats' = Bump(Bump(stats, "total"), outcome.counter)
           /\ ambiguous_matches' = ambiguous_matches \o outcome.found.entries
           /\ not_found_paths' =
                IF outcome.counter = "not_found"
                THEN Append(not_found_paths, outcome.itunes_path) ELSE not_found_paths
           /\ annotation' =
                IF outcome.counter = "matched" /\ ~args.dry_run
                THEN ApplyUpserts(annotation, args.user_id, targets, Len(targets), outcome,
                                  args.replace, has_rated_at)
                ELSE annotation
    /\ idx' = idx + 1
    /\ UNCHANGED <<media_file, path_index, has_rated_at, playlist, committed, before_run,
                   args, import_options, tracks, playlists, pc, date_added_stats,
                   playlist_stats, last, ncalls>>

\* migrate_track raising from its (n+1)-th annotation write, n writes done.
TrackRaise(n) ==
    /\ pc = "tracks"
    /\ ImportsAnnotations
    /\ idx <= Len(tracks)
    /\ ~args.dry_run
    /\ LET outcome == TrackOutcome(tracks[idx], import_options, path_index, FALSE)
           targets == AnnotationTargets(outcome.found.match[1])
       IN  /\ outcome.counter = "matched"
           /\ n < Len(targets)
           /\ stats' = Bump(stats, "total")
           /\ ambiguous_matches' = ambiguous_matches \o outcome.found.entries
           /\ annotation' = ApplyUpserts(annotation, args.user_id, targets, n, outcome,
                                         args.replace, has_rated_at)
    /\ pc' = "except"
    /\ UNCHANGED <<media_file, path_index, has_rated_at, playlist, committed, before_run,
                   args, import_options, tracks, playlists, idx, date_added_stats,
                   playlist_stats, not_found_paths, last, ncalls>>

\* The track loop is over, or no annotation option is selected.
TracksDone ==
    /\ pc = "tracks"
    /\ ~ImportsAnnotations \/ idx > Len(tracks)
    /\ pc' = "date_added"
    /\ idx' = 1
    /\ UNCHANGED <<matchVars, mergeVars, playlist, committed, before_run, args,
                   import_options, tracks, playlists, stats, date_added_stats,
                   playlist_stats, not_found_paths, last, ncalls>>

\* One iteration of the loop of migrate_date_added.
DateAddedStep ==
    /\ pc = "date_added"
    /\ import_options.import_date_added
    /\ idx <= Len(tracks)
    /\ LET outcome == DateAddedOutcome(tracks[idx], path_index)
       IN  /\ date_added_stats' = Bump(Bump(date_added_stats, "total"), outcome.counter)
           /\ media_file' = DateAddedWritten(media_file, outcome, args.dry_run)
    /\ idx' = idx + 1
    /\ UNCHANGED <<path_index, ambiguous_matches, mergeVars, playlist, committed,
                   before_run, args, import_options, tracks, playlists, pc, stats,
                   playlist_stats, not_found_paths, last, ncalls>>

\* migrate_date_added returned, or date added is not selected.
DateAddedDone ==
    /\ pc = "date_added"
    /\ ~import_options.import_date_added \/ idx > Len(tracks)
    /\ pc' = "playlists"
    /\ idx' = 1
    /\ UNCHANGED <<matchVars, mergeVars, playlist, committed, before_run, args,
                   import_options, tracks, playlists, stats, date_added_stats,
                   playlist_stats, not_found_paths, last, ncalls>>

ImportsPlaylists == import_options.import_playlists /\ playlists # << >>

\* One iteration of the loop of migrate_all_playlists: migrate_playlist.
PlaylistStep ==
    /\ pc = "playlists"
    /\ ImportsPlaylists
    /\ idx <= Len(playlists)
    /\ LET source == playlists[idx]
           outcome == PlaylistOutcome(playlist, args.user_id, source, path_index, args.dry_run)
           counted == Bump([playlist_stats EXCEPT !.total = Len(playlists)], outcome.counter)
       IN  /\ playlist' = PlaylistWritten(playlist, args.user_id, source, outcome, args.dry_run)
           /\ playlist_stats' =
                IF outcome.counter = "created"
                THEN [counted EXCEPT
                        !.tracks_matched = @ + Len(outcome.ids),
                        !.tracks_unmatched = @ + UnmatchedCount(source.tracks, path_index)]
                ELSE counted
    /\ idx' = idx + 1
    /\ UNCHANGED <<matchVars, mergeVars, committed, before_run, args, import_options,
                   tracks, playlists, pc, stats, date_added_stats, not_found_paths,
                   last, ncalls>>

\* create_playlist raising after the playlist row and n of its track rows.
PlaylistRaise(n) ==
    /\ pc = "playlists"
    /\ ImportsPlaylists
    /\ idx <= Len(playlists)
    /\ ~args.dry_run
    /\ LET source == playlists[idx]
           outcome == PlaylistOutcome(playlist, args.user_id, source, path_index, FALSE)
       IN  /\ outcome.counter = "created"
           /\ n < Len(outcome.ids)
           /\ playlist' = CreatedPlaylist(playlist, source.name, args.user_id, outcome.ids, n)
    /\ pc' = "except"
    /\ UNCHANGED <<matchVars, mergeVars, committed, before_run, args, import_options,
                   tracks, playlists, idx, stats, date_added_stats, playlist_stats,
                   not_found_paths, last, ncalls>>

\* migrate_all_playlists returned, or playlists are not imported.
PlaylistsDone ==
    /\ pc = "playlists"
    /\ ~ImportsPlaylists \/ idx > Len(playlists)
    /\ pc' = "commit"
    /\ UNCHANGED <<matchVars, mergeVars, playlist, committed, before_run, args,
                   import_options, tracks, playlists, idx, stats, date_added_stats,
                   playlist_stats, not_found_paths, last, ncalls>>

\* A statement inside the try block raising before it wrote anything.
Raise ==
    /\ \/ pc = "tracks" /\ ImportsAnnotations /\ idx <= Len(tracks)
       \/ pc = "date_added" /\ import_options.import_date_added /\ idx <= Len(tracks)
       \/ pc = "playlists" /\ ImportsPlaylists /\ idx <= Len(playlists)
       \/ pc = "commit" /\ ~args.dry_run
    /\ pc' = "except"
    /\ UNCHANGED <<matchVars, mergeVars, playlist, committed, before_run, args,
                   import_options, tracks, playlists, idx, stats, date_added_stats,
                   playlist_stats, not_found_paths, last, ncalls>>

\* conn.commit() unless dry_run, at the end of the try block.
Commit ==
    /\ pc = "commit"
    /\ committed' = CommitUnlessDryRun(args.dry_run, Tables(annotation, media_file, playlist),
                                       committed)
    /\ pc' = "done"
    /\ UNCHANGED <<matchVars, mergeVars, playlist, before_run, args, import_options,
                   tracks, playlists, idx, stats, date_added_stats, playlist_stats,
                   not_found_paths, last, ncalls>>

\* except Exception: rollback unless dry_run, then re-raise; finally conn.close().
Except ==
    /\ pc = "except"
    /\ LET after == ExceptRollsBack(args.dry_run, Tables(annotation, media_file, playlist),
                                    committed)
       IN  /\ annotation' = after.working.annotation
           /\ media_file' = after.working.media_file
           /\ playlist' = after.working.playlist
           /\ committed' = after.durable
    /\ pc' = "raised"
    /\ UNCHANGED <<path_index, ambiguous_matches, has_rated_at, before_run, args,
                   import_options, tracks, playlists, idx, stats, date_added_stats,
                   playlist_stats, not_found_paths, last, ncalls>>

NextRun ==
    \/ TrackStep
    \/ \E n \in 0..2 : TrackRaise(n)
    \/ TracksDone
    \/ DateAddedStep
    \/ DateAddedDone
    \/ PlaylistStep
    \/ \E n \in 0..(MaxTracks - 1) : PlaylistRaise(n)
    \/ PlaylistsDone
    \/ Raise
    \/ Commit
    \/ Except

SpecRun == InitRun /\ [][NextRun]_vars

----------------------------------------------------------------------------
(* Properties of the annotation merger *)

UniquePerKey(ann) ==
    \A j, k \in 1..Len(ann) : KeyOf(ann[j]) = KeyOf(ann[k]) => j = k

\* Whether the last call found a row for its key, that row, and the row stored now.
LastExisted == RowsWhere(last.before, last.key[1], last.key[2], last.key[3]) # {}
LastBefore == last.before[Min(RowsWhere(last.before, last.key[1], last.key[2], last.key[3]))]
LastStored == annotation[Min(RowsWhere(annotation, last.key[1], last.key[2], last.key[3]))]

\* C1: after any sequence of update_or_insert_annotation calls on a table that
\* began with at most one row per (user_id, item_id, item_type), the table has at
\* most one row per triple; a call appends one row for its triple exactly when
\* no row with that triple existed, and every row that was there keeps its place
\* and its triple (no row is deleted).
C1_OneAnnotationPerKey ==
    /\ UniquePerKey(annotation)
    /\ last.op = "upsert" =>
        /\ Len(annotation) = Len(last.before) + (IF LastExisted THEN 0 ELSE 1)
        /\ \A k \in 1..Len(last.before) : KeyOf(annotation[k]) = KeyOf(last.before[k])
        /\ ~LastExisted => KeyOf(annotation[Len(annotation)]) = last.key
        /\ \A k \in 1..Len(last.before) :
              KeyOf(last.before[k]) # last.key => annotation[k] = last.before[k]

\* C1 witness: a second call updated the row of a triple in a table that holds
\* rows of two different triples.
C1_Witness ==
    /\ last.op = "upsert"
    /\ LastExisted
    /\ Len(annotation) >= 2
    /\ ncalls = 2

\* C2: in Add mode, a call that finds a row with play count ep (NULL as 0) and
\* brings play count np leaves play_count = ep + np.
C2_AddSumsPlayCount ==
    (last.op = "upsert" /\ LastExisted /\ ~last.replace_mode) =>
        LastStored.play_count
            = Some(OrZero(LastBefore.play_count) + OrZero(last.play_count))

\* C2 witness: an Add-mode call brought a nonzero play count to a row whose
\* play count was nonzero.
C2_Witness ==
    /\ last.op = "upsert"
    /\ LastExisted
    /\ ~last.replace_mode
    /\ OrZero(LastBefore.play_count) > 0
    /\ OrZero(last.play_count) > 0

C4_ReplaceOverwrites ==
    (last.op = "upsert" /\ LastExisted /\ last.replace_mode) =>
        /\ LastStored.play_count = Some(OrZero(last.play_count))
        /\ LastStored.rating = Some(OrZero(last.rating))

\* C4 witness: a Replace-mode call lowered both the play count and the rating
\* of the row it found.
C4_Witness ==
    /\ last.op = "upsert"
    /\ LastExisted
    /\ last.replace_mode
    /\ OrZero(LastBefore.play_count) > OrZero(last.play_count)
    /\ OrZero(LastBefore.rating) > OrZero(last.rating)

\* The later of two optional timestamps, an absent one being earlier than any.
Later(a, b) ==
    IF a = None THEN b
    ELSE IF b = None THEN a
    ELSE IF a[1] > b[1] THEN a ELSE b

\* The higher of two ratings.
Higher(a, b) == IF a > b THEN a ELSE b

\* C15: in Add mode, a call that finds a row with rating er and brings rating nr
\* leaves the higher of er and nr, so never a rating below er.
C15_AddKeepsHigherRating ==
    (last.op = "upsert" /\ LastExisted /\ ~last.replace_mode) =>
        LastStored.rating = Some(Higher(OrZero(LastBefore.rating), OrZero(last.rating)))

\* C16 as stated: in Replace mode, a call that finds a row leaves play_date = npd,
\* also when the row's play date is later than npd and when npd is absent.
C16_ReplaceStoresNewPlayDate ==
    (last.op = "upsert" /\ LastExisted /\ last.replace_mode) =>
        LastStored.play_date = last.play_date

\* C16 amended: in Replace mode, a call that finds a row leaves the later of the
\* row's play date and npd (an absent date being earlier than any timestamp): npd
\* only when the row has no later play date, and the row's play date when npd is
\* absent.
C16_ReplaceKeepsLaterPlayDate ==
    (last.op = "upsert" /\ LastExisted /\ last.replace_mode) =>
        LastStored.play_date = Later(LastBefore.play_date, last.play_date)

\* C16 witness: a Replace-mode call with a play date met a row with a later
\* play date, which the row kept.
C16_Witness ==
    /\ last.op = "upsert"
    /\ LastExisted
    /\ last.replace_mode
    /\ last.play_date # None
    /\ LastBefore.play_date # None
    /\ LastBefore.play_date[1] > last.play_date[1]
    /\ LastStored.play_date = LastBefore.play_date

\* C17: after an Add-mode call the stored play_date is the later of the play date
\* the row held (none when the row is new) and the new one, an absent date being
\* earlier than any timestamp; so by induction it is the latest of all play dates
\* seen, it never moves to an earlier timestamp and a present play date is never
\* replaced by an absent one.
C17_AddKeepsLatestPlayDate ==
    (last.op = "upsert" /\ ~last.replace_mode) =>
        /\ LastStored.play_date
             = Later(IF LastExisted THEN LastBefore.play_date ELSE None, last.play_date)
        /\ (LastExisted /\ LastBefore.play_date # None) =>
              /\ LastStored.play_date # None
              /\ LastStored.play_date[1] >= LastBefore.play_date[1]

\* C17 witness: the second of two Add-mode calls brought a play date later than
\* the one the row held, and the row took it.
C17_Witness ==
    /\ last.op = "upsert"
    /\ ncalls = 2
    /\ LastExisted
    /\ ~last.replace_mode
    /\ last.play_date # None
    /\ LastBefore.play_date # None
    /\ last.play_date[1] > LastBefore.play_date[1]
    /\ LastStored.play_date = last.play_date

\* C18: a call that finds no row for its (user_id, item_id, item_type), in
\* either mode, appends a row with play_count = np, rating = nr and
\* play_date = npd, an absent np or nr being stored as 0.
C18_InsertStoresNewValues ==
    (last.op = "upsert" /\ ~LastExisted) =>
        /\ LastStored = annotation[Len(annotation)]
        /\ LastStored.play_count = Some(OrZero(last.play_count))
        /\ LastStored.rating = Some(OrZero(last.rating))
        /\ LastStored.play_date = last.play_date

\* C18 witness: a call with no play count and no rating, and with a play date,
\* found no row.
C18_Witness ==
    /\ last.op = "upsert"
    /\ ~LastExisted
    /\ last.play_count = None
    /\ last.rating = None
    /\ last.play_date # None
    /\ LastStored.play_count = Some(0)
    /\ LastStored.rating = Some(0)

\* C19: with a rated_at column, after every call (insert or update) on a row
\* that only these calls have written, rated_at holds the play date (the one of
\* the call or the one stored) if the stored rating is nonzero and is unset if
\* the stored rating is zero.
C19_RatedAtFollowsRating ==
    (has_rated_at /\ last.op = "upsert" /\ last.first = << >>) =>
        IF LastStored.rating # Some(0)
        THEN LastStored.rated_at \in {last.play_date, LastStored.play_date}
        ELSE LastStored.rated_at = None

----------------------------------------------------------------------------
(* Properties of the path matcher *)

\* The source path of the last lookup, normalised, and its number of segments.
SourceParts == NormalizeUnicode(last.itunes_path)
FullWidth == Len(SourceParts)

\* Whether the last w segments of two paths are equal once lower-cased.
SameTail(a, b, w) ==
    /\ Len(a) >= w
    /\ Len(b) >= w
    /\ \A k \in 1..w : LowerSegment(a[Len(a) - w + k]) = LowerSegment(b[Len(b) - w + k])

\* The rows of media_file, in table order, whose normalised path shares its last
\* w segments with the source path: the records a suffix of width w stands for.
Candidates(w) ==
    SelectSeq(media_file,
              LAMBDA row : row.path # None
                           /\ SameTail(NormalizeUnicode(row.path), SourceParts, w))

FileInfo(row) ==
    [id |-> row.id, path |-> NormalizeUnicode(row.path),
     album_id |-> row.album_id, artist_id |-> row.artist_id]

\* The widths, from the filename (1) to the full source path, with one candidate.
UniqueWidths == {w \in 1..FullWidth : Len(Candidates(w)) = 1}

\* C5: the lookup returns a unique match exactly when some suffix of the source
\* path stands for one record, and then returns the record of the narrowest such
\* suffix (the first met while widening from the filename), also when narrower
\* suffixes stand for several records; in particular a record that alone has the
\* source's filename is returned whatever the directories are.
C5_FirstSingletonBucketWins ==
    last.op = "find" =>
        /\ (last.branch = "unique") <=> (UniqueWidths # {})
        /\ UniqueWidths # {} =>
              last.match = Some(FileInfo(Candidates(Min(UniqueWidths))[1]))
        /\ Len(Candidates(1)) = 1 =>
              /\ last.branch = "unique"
              /\ last.match = Some(FileInfo(Candidates(1)[1]))

\* C5 witness: the filename alone stood for two records and the lookup went on
\* to the wider suffix that stands for one, which it returned.
C5_Witness ==
    /\ last.op = "find"
    /\ last.branch = "unique"
    /\ Len(Candidates(1)) = 2
    /\ Min(UniqueWidths) = 2
    /\ last.match[1].id = Candidates(2)[1].id

\* C6: when no suffix of the source path stands for exactly one record and the
\* full source path stands for several, the lookup returns the first of them in
\* table order and appends to a supplied ambiguous_matches list exactly one entry:
\* the source path followed by the path of every one of them.
C6_AmbiguousAtFullPath ==
    (last.op = "find" /\ UniqueWidths = {} /\ Len(Candidates(FullWidth)) > 1) =>
        /\ last.branch = "ambiguous"
        /\ last.match = Some(FileInfo(Candidates(FullWidth)[1]))
        /\ ambiguous_matches =
              IF last.supplied
              THEN << <<last.itunes_path>> \o
                      [k \in 1..Len(Candidates(FullWidth)) |->
                          NormalizeUnicode(Candidates(FullWidth)[k].path)] >>
              ELSE << >>

\* C6 witness: two records in different directories share a filename, the source
\* path is that bare filename, and the entry lists the source and both records.
C6_Witness ==
    /\ last.op = "find"
    /\ last.supplied
    /\ FullWidth = 1
    /\ Len(media_file) = 2
    /\ media_file[1].path # None /\ Len(media_file[1].path) = 2
    /\ media_file[2].path # None /\ Len(media_file[2].path) = 2
    /\ media_file[1].path[1] # media_file[2].path[1]
    /\ last.branch = "ambiguous"
    /\ last.match[1].id = 1
    /\ ambiguous_matches = <<<<last.itunes_path, media_file[1].path, media_file[2].path>>>>

\* C7: the lookup returns None exactly when no suffix of the source path, at any
\* width, stands for a record; when some suffix does, the result is a unique
\* match or an ambiguous match recorded in the supplied list.
C7_UnmatchedOnlyWithoutCandidates ==
    last.op = "find" =>
        /\ (last.match = None) <=> (\A w \in 1..FullWidth : Len(Candidates(w)) = 0)
        /\ (\E w \in 1..FullWidth : Len(Candidates(w)) > 0) =>
              \/ last.branch = "unique"
              \/ last.branch = "ambiguous" /\ (last.supplied => Len(ambiguous_matches) = 1)

\* The number of trailing segments two paths share once lower-cased.
SharedLen(a, b) ==
    LET widths == {w \in 0..Len(a) : SameTail(a, b, w)}
    IN  CHOOSE w \in widths : \A v \in widths : v <= w

\* C8: a unique match shares a longer trailing-segment suffix with the source
\* path than every other indexed record does.
C8_UniqueMatchIsLongestSuffix ==
    (last.op = "find" /\ last.branch = "unique") =>
        \A k \in 1..Len(media_file) :
            (media_file[k].path # None /\ media_file[k].id # last.match[1].id) =>
                SharedLen(SourceParts, NormalizeUnicode(media_file[k].path))
                    < SharedLen(SourceParts, last.match[1].path)

\* C8 witness: the unique match shares two segments with the source path while
\* another record shares the filename only.
C8_Witness ==
    /\ last.op = "find"
    /\ last.branch = "unique"
    /\ SharedLen(SourceParts, last.match[1].path) = 2
    /\ \E k \in 1..Len(media_file) :
          /\ media_file[k].path # None
          /\ media_file[k].id # last.match[1].id
          /\ SharedLen(SourceParts, NormalizeUnicode(media_file[k].path)) = 1

----------------------------------------------------------------------------
(* Properties of the run *)

Working == Tables(annotation, media_file, playlist)

\* Every loop the options select has gone through all of its items.
AllProcessed ==
    /\ ImportsAnnotations => stats.total = Len(tracks)
    /\ import_options.import_date_added => date_added_stats.total = Len(tracks)
    /\ ImportsPlaylists =>
          playlist_stats.created + playlist_stats.skipped_exists
              + playlist_stats.skipped_no_tracks = Len(playlists)

\* C9: in a run that is not a dry run, once an exception is raised no further
\* record, timestamp or playlist is processed and nothing is committed; after
\* the handler the tables inside the connection and the committed tables are
\* those from before the run; the committed tables change only in the one step
\* from "commit" to "done", taken after every selected loop went through all of
\* its items, and nothing follows it.
C9_FailureRollsBackWholeRun ==
    /\ [](~args.dry_run /\ pc # "done" => committed = before_run)
    /\ [](~args.dry_run /\ pc = "raised" => Working = before_run)
    /\ [][~args.dry_run /\ pc \in {"except", "raised"} =>
            /\ pc' \in {"except", "raised"}
            /\ committed' = committed
            /\ idx' = idx
            /\ stats' = stats
            /\ date_added_stats' = date_added_stats
            /\ playlist_stats' = playlist_stats]_vars
    /\ [][~args.dry_run /\ committed' # committed =>
            pc = "commit" /\ pc' = "done" /\ AllProcessed]_vars
    /\ [][pc = "done" => pc' = "done" /\ committed' = committed]_vars

\* C9 witness: a run that is not a dry run had merged a track, written a
\* created_at or created a playlist when an exception ended it, and its tables
\* are back to those from before the run.
C9_Witness ==
    /\ ~args.dry_run
    /\ pc = "raised"
    /\ stats.matched >= 1
    /\ date_added_stats.updated >= 1
    /\ playlist_stats.created >= 1
    /\ Working = before_run
    /\ committed = before_run

\* C10: in a dry run the annotation, media_file and playlist tables inside the
\* connection and the committed tables stay those from before the run, for every
\* library and every selection of import options.
C10_DryRunWritesNothing ==
    args.dry_run => (Working = before_run /\ committed = before_run)

\* C10 witness: a dry run ended after it matched a track, counted a created_at
\* update and counted a playlist creation.
C10_Witness ==
    /\ args.dry_run
    /\ pc = "done"
    /\ stats.matched >= 1
    /\ date_added_stats.updated >= 1
    /\ playlist_stats.created >= 1

----------------------------------------------------------------------------
(* main() run again and again on one database, every run to its commit *)

\* The media_file table of the repeated runs: the two files of album 1, and a
\* file without an album by the artist of the first.
RerunFiles ==
    RunFiles \o <<[id |-> 3, path |-> <<"y", "t">>, album_id |-> None, artist_id |-> Some(1),
                   created_at |-> None]>>

\* Tracks of the library: three that match the three files, with different
\* values; one whose file is not in Navidrome; one with nothing to migrate.
RerunTracks ==
    {[Location |-> Some(<<"C:", "x", "S">>), PlayCount |-> Some(2), Rating |-> Some(60),
      PlayDateUTC |-> Datetime(2), DateAdded |-> Datetime(1)],
     [Location |-> Some(<<"", "C:", "y", "s">>), PlayCount |-> Some(1), Rating |-> Some(40),
      PlayDateUTC |-> Datetime(1), DateAdded |-> None],
     [Location |-> Some(<<"y", "t">>), PlayCount |-> Some(1), Rating |-> None,
      PlayDateUTC |-> None, DateAdded |-> Datetime(1)],
     [Location |-> Some(<<"x", "u">>), PlayCount |-> Some(1), Rating |-> Some(100),
      PlayDateUTC |-> None, DateAdded |-> None],
     [Location |-> Some(<<"x", "s">>), PlayCount |-> None, Rating |-> None,
      PlayDateUTC |-> None, DateAdded |-> None]}

RerunLibraries == UNION {[1..n -> RerunTracks] : n \in 1..MaxTracks}

\* The options of the repeated runs: any of play counts, ratings, play dates and
\* date added; no playlists.
RerunImportOptions == {o \in AllImportOptions : ~o.import_playlists}

\* navidrome.db before the first run: no annotation, or one of a media file.
RerunDatabases ==
    {Tables(<< >>, RerunFiles, << >>), Tables(<<ForeignRow(TRUE)>>, RerunFiles, << >>)}

\* ncalls counts the runs that committed; last keeps the database of the first.
InitRerun ==
    /\ committed \in RerunDatabases
    /\ before_run = committed
    /\ media_file = committed.media_file
    /\ annotation = committed.annotation
    /\ playlist = committed.playlist
    /\ has_rated_at \in BOOLEAN
    /\ path_index = BuildNavidromePathIndex(media_file)
    /\ args \in [dry_run : {FALSE}, replace : BOOLEAN, user_id : {1}]
    /\ import_options \in RerunImportOptions
    /\ tracks \in RerunLibraries
    /\ playlists = << >>
    /\ pc = "tracks"
    /\ idx = 1
    /\ stats = NoStats
    /\ date_added_stats = NoDateAddedStats
    /\ playlist_stats = NoPlaylistStats
    /\ not_found_paths = << >>
    /\ ambiguous_matches = << >>
    /\ last = [op |-> "main", first |-> committed]
    /\ ncalls = 0

\* main() started again with the same arguments on the database the run before
\* committed.
RunAgain ==
    /\ pc = "done"
    /\ ncalls + 1 < MaxRuns
    /\ ncalls' = ncalls + 1
    /\ before_run' = committed
    /\ path_index' = BuildNavidromePathIndex(media_file)
    /\ pc' = "tracks"
    /\ idx' = 1
    /\ stats' = NoStats
    /\ date_added_stats' = NoDateAddedStats
    /\ playlist_stats' = NoPlaylistStats
    /\ not_found_paths' = << >>
    /\ ambiguous_matches' = << >>
    /\ UNCHANGED <<media_file, mergeVars, playlist, committed, args, import_options,
                   tracks, playlists, last>>

NextRerun ==
    \/ TrackStep
    \/ TracksDone
    \/ DateAddedStep
    \/ DateAddedDone
    \/ PlaylistsDone
    \/ Commit
    \/ RunAgain

SpecRerun == InitRerun /\ [][NextRerun]_vars

----------------------------------------------------------------------------
(* Properties of repeated runs *)

\* The play count one migrate_track call of the track sends to the annotation of
\* the album (item_type "album") or artist with this id: the track's play count
\* when it is matched to a file of that album or artist, nothing otherwise.
Routed(track, item_type, item_id) ==
    LET outcome == TrackOutcome(track, import_options, path_index, FALSE)
        media == outcome.found.match[1]
        through == IF item_type = "album" THEN media.album_id ELSE media.artist_id
    IN  IF outcome.counter = "matched" /\ through = Some(item_id)
        THEN outcome.play_count ELSE 0

\* The sum of what the first n tracks of the library send there in one run.
RECURSIVE RoutedSum(_, _, _)
RoutedSum(item_type, item_id, n) ==
    IF n = 0 THEN 0
    ELSE RoutedSum(item_type, item_id, n - 1) + Routed(tracks[n], item_type, item_id)

\* Whether one of the first n tracks is merged into that album or artist.
RoutedAny(item_type, item_id, n) ==
    \E k \in 1..n :
        LET outcome == TrackOutcome(tracks[k], import_options, path_index, FALSE)
        IN  /\ outcome.counter = "matched"
            /\ [item_id |-> item_id, item_type |-> item_type]
                 \in {AnnotationTargets(outcome.found.match[1])[j] :
                        j \in 1..Len(AnnotationTargets(outcome.found.match[1]))}

\* The tracks the running (or finished) run has passed to migrate_track.
TracksMerged ==
    IF ~ImportsAnnotations THEN 0
    ELSE IF pc = "tracks" THEN idx - 1 ELSE Len(tracks)

\* C11: in Add mode, on a database that began without album and artist
\* annotations, at every point of every run the play_count of an album's
\* (artist's) annotation is the sum of the play counts of all track merges sent
\* through that album_id (artist_id) in the runs so far, and the annotation
\* exists exactly when there was such a merge.
C11_AggregateIsSumOfRouted ==
    ~args.replace =>
        \A item_type \in {"album", "artist"}, item_id \in ItemIds :
            LET hits == RowsWhere(annotation, args.user_id, item_id, item_type)
                merged == TracksMerged
                total == ncalls * RoutedSum(item_type, item_id, Len(tracks))
                            + RoutedSum(item_type, item_id, merged)
                any == \/ ncalls > 0 /\ RoutedAny(item_type, item_id, Len(tracks))
                       \/ RoutedAny(item_type, item_id, merged)
            IN  /\ (hits # {}) = (ImportsAnnotations /\ any)
                /\ hits # {} => annotation[Min(hits)].play_count = Some(total)

\* C11 witness: the second Add-mode run of a library of two different tracks of
\* album 1, both with plays, has committed.
C11_Witness ==
    /\ ~args.replace
    /\ pc = "done"
    /\ ncalls = 1
    /\ Len(tracks) = 2
    /\ tracks[1] # tracks[2]
    /\ Routed(tracks[1], "album", 1) > 0
    /\ Routed(tracks[2], "album", 1) > 0
    /\ RowsWhere(committed.annotation, 1, 1, "album") # {}

\* C12: one iteration of the track loop on a matched track merges the track's
\* play_count, rating and play_date into the annotation of the matched file,
\* then into that of its album if and only if album_id is set, then into that of
\* its artist if and only if artist_id is set, in this order and with the same
\* values; an iteration on a skipped or unmatched track leaves the annotation
\* table as it was.
C12_TrackThenAlbumThenArtist ==
    [][pc = "tracks" /\ idx' = idx + 1 =>
        LET outcome == TrackOutcome(tracks[idx], import_options, path_index, FALSE)
            media == outcome.found.match[1]
            Merged(ann, item_id, item_type) ==
                UpdateOrInsertAnnotation(ann, args.user_id, item_id, item_type,
                    Some(outcome.play_count), outcome.play_date, Some(outcome.rating),
                    args.replace, has_rated_at)
            with_track == Merged(annotation, media.id, "media_file")
            with_album == IF media.album_id # None
                          THEN Merged(with_track, media.album_id[1], "album")
                          ELSE with_track
            with_artist == IF media.artist_id # None
                           THEN Merged(with_album, media.artist_id[1], "artist")
                           ELSE with_album
        IN  annotation' = IF outcome.counter = "matched" THEN with_artist ELSE annotation
    ]_vars

\* C12 witness: on an empty table, a first run has merged the track of the file
\* without an album (rows of the file and its artist) and then the track of
\* file 1 (rows of the file and its album, the artist's row updated).
C12_Witness ==
    /\ last.op = "main"
    /\ last.first.annotation = << >>
    /\ ncalls = 0
    /\ pc = "tracks"
    /\ idx = 3
    /\ tracks[1].Location = Some(<<"y", "t">>)
    /\ tracks[2].Location = Some(<<"C:", "x", "S">>)
    /\ [k \in 1..Len(annotation) |-> annotation[k].item_type]
          = <<"media_file", "artist", "media_file", "album">>

\* The annotation tables a re-run began with and committed hold the same rows
\* in the same places.
SameAnnotationKeys ==
    /\ Len(committed.annotation) = Len(before_run.annotation)
    /\ \A k \in 1..Len(before_run.annotation) :
          KeyOf(committed.annotation[k]) = KeyOf(before_run.annotation[k])

\* C13: on a database that began without annotations, when the second Add-mode
\* run of the same library has committed, the table holds the rows the first run
\* left, each (track, album, artist) with twice the play_count it had then.
C13_SecondAddRunDoubles ==
    (~args.replace /\ last.op = "main" /\ last.first.annotation = << >>
        /\ pc = "done" /\ ncalls = 1) =>
        /\ SameAnnotationKeys
        /\ \A k \in 1..Len(before_run.annotation) :
              committed.annotation[k].play_count
                  = Some(2 * before_run.annotation[k].play_count[1])

\* C13 witness: the second Add-mode run has committed rows of a track, an album
\* and an artist, all with plays, on a database that began empty.
C13_Witness ==
    /\ ~args.replace
    /\ last.op = "main"
    /\ last.first.annotation = << >>
    /\ pc = "done"
    /\ ncalls = 1
    /\ \A item_type \in ItemTypes :
          \E k \in 1..Len(committed.annotation) :
              /\ committed.annotation[k].item_type = item_type
              /\ committed.annotation[k].play_count[1] >= 2

\* C14: when a Replace-mode re-run of the same library has committed, the table
\* holds the rows the run before left, each with the play_count, rating and
\* play_date it had then.
C14_ReplaceRerunIsIdempotent ==
    (args.replace /\ pc = "done" /\ ncalls >= 1) =>
        /\ SameAnnotationKeys
        /\ \A k \in 1..Len(before_run.annotation) :
              /\ committed.annotation[k].play_count = before_run.annotation[k].play_count
              /\ committed.annotation[k].rating = before_run.annotation[k].rating
              /\ committed.annotation[k].play_date = before_run.annotation[k].play_date

\* C14 witness: a Replace-mode re-run has committed after merging two different
\* tracks of album 1, both with plays, on a database that began with a row.
C14_Witness ==
    /\ args.replace
    /\ pc = "done"
    /\ ncalls = 1
    /\ last.op = "main"
    /\ last.first.annotation # << >>
    /\ Len(tracks) = 2
    /\ Routed(tracks[1], "album", 1) > Routed(tracks[2], "album", 1)
    /\ Routed(tracks[2], "album", 1) > 0
    /\ RowsWhere(committed.annotation, 1, 1, "album") # {}

----------------------------------------------------------------------------
(* convert_itunes_rating on its own *)

\* The Rating values of tracks: None, or an integer up to MaxItunesRating.
ItunesRatings == {None} \cup {Some(n) : n \in 0..MaxItunesRating}

InitConvert ==
    /\ media_file = << >>
    /\ path_index = EmptyIndex
    /\ ambiguous_matches = << >>
    /\ annotation = << >>
    /\ has_rated_at = FALSE
    /\ NoRun
    /\ last = NoCall
    /\ ncalls = 0

\* One call of convert_itunes_rating(itunes_rating).
ConvertRating(itunes_rating) ==
    /\ ncalls < MaxCalls
    /\ last' = [op |-> "convert_itunes_rating", itunes_rating |-> itunes_rating,
                result |-> ConvertItunesRating(itunes_rating)]
    /\ ncalls' = ncalls + 1
    /\ UNCHANGED <<matchVars, mergeVars, runVars>>

NextConvert == \E itunes_rating \in ItunesRatings : ConvertRating(itunes_rating)

SpecConvert == InitConvert /\ [][NextConvert]_vars

\* C20 as stated: convert_itunes_rating maps 0, 19, 20, 59, 60 and 100 to
\* 0, 1, 1, 3, 3 and 5.
C20_RatingConversionTable ==
    last.op = "convert_itunes_rating" =>
        /\ last.itunes_rating = Some(0) => last.result = 0
        /\ last.itunes_rating = Some(19) => last.result = 1
        /\ last.itunes_rating = Some(20) => last.result = 1
        /\ last.itunes_rating = Some(59) => last.result = 3
        /\ last.itunes_rating = Some(60) => last.result = 3
        /\ last.itunes_rating = Some(100) => last.result = 5

\* C20 amended: convert_itunes_rating maps 0, 19, 20, 59, 60 and 100 to
\* 0, 1, 1, 2, 3 and 5: the floor of the rating divided by 20, at least 1 for a
\* nonzero rating and at most 5.
C20_RatingConversionFloors ==
    last.op = "convert_itunes_rating" =>
        /\ last.itunes_rating = Some(0) => last.result = 0
        /\ last.itunes_rating = Some(19) => last.result = 1
        /\ last.itunes_rating = Some(20) => last.result = 1
        /\ last.itunes_rating = Some(59) => last.result = 2
        /\ last.itunes_rating = Some(60) => last.result = 3
        /\ last.itunes_rating = Some(100) => last.result = 5

\* C20 witness: after a call on 19, which gave the floor of one star, a call
\* converted 59 to 2.
C20_Witness ==
    /\ last.op = "convert_itunes_rating"
    /\ ncalls = 2
    /\ last.itunes_rating = Some(59)
    /\ last.result = 2

\* C21: for a rating r of 0..100, convert_itunes_rating gives 0 when r is 0 or
\* absent and otherwise the floor of r / 20 brought into 1..5: 1 below 20, the
\* s with 20 * s <= r < 20 * (s + 1) from 20 on, 5 from 100 on; so the result is
\* in 0..5 and is 0 only for a zero or absent rating.
C21_RatingIsFloorClamped ==
    last.op = "convert_itunes_rating" =>
        LET r == last.itunes_rating
            s == last.result
        IN  /\ s \in 0..5
            /\ (s = 0) = (r = None \/ r = Some(0))
            /\ (r # None /\ r[1] > 0) =>
                  \/ r[1] < 20 /\ s = 1
                  \/ r[1] >= 20 /\ r[1] < 100 /\ 20 * s <= r[1] /\ r[1] < 20 * (s + 1)
                  \/ r[1] >= 100 /\ s = 5

\* C21 witness: calls on an absent rating and on 99, one below five stars' worth,
\* which gave 4.
C21_Witness ==
    /\ last.op = "convert_itunes_rating"
    /\ ncalls = 2
    /\ last.itunes_rating = Some(99)
    /\ last.result = 4

----------------------------------------------------------------------------
(* Properties of the suffix index *)

\* The case-folded suffixes segments[i:] of a path, one for each start i.
OwnSuffixes(path) == {SuffixKey(NormalizeUnicode(path), i) : i \in 1..Len(path)}

\* How many times the record with this id stands in a bucket.
Occurrences(bucket, id) == Cardinality({k \in 1..Len(bucket) : bucket[k].id = id})

\* C22: in the index built from the media_file table, a record with a path of N
\* segments has N different suffixes, each a key of by_suffix; the record stands
\* exactly once in the bucket of each, the full path included, and in no other
\* bucket; a record with a NULL path stands in no bucket.
C22_RecordInEachOwnSuffixBucket ==
    \A k \in 1..Len(media_file) :
        LET row == media_file[k]
        IN  IF row.path = None
            THEN \A key \in DOMAIN path_index : Occurrences(path_index[key], row.id) = 0
            ELSE /\ Cardinality(OwnSuffixes(row.path)) = Len(row.path)
                 /\ OwnSuffixes(row.path) \subseteq DOMAIN path_index
                 /\ SuffixKey(NormalizeUnicode(row.path), 1) \in DOMAIN path_index
                 /\ \A key \in DOMAIN path_index :
                       /\ Occurrences(path_index[key], row.id)
                            = IF key \in OwnSuffixes(row.path) THEN 1 ELSE 0
                       /\ \A j \in 1..Len(path_index[key]) :
                             path_index[key][j].id = row.id
                                => path_index[key][j] = FileInfo(row)

\* C22 witness: two records of two segments whose filenames differ in case only
\* share the filename bucket and have a full-path bucket each.
C22_Witness ==
    /\ Len(media_file) = 2
    /\ media_file[1].path = <<"x", "S">>
    /\ media_file[2].path = <<"y", "s">>
    /\ Len(path_index[<<"s">>]) = 2
    /\ Len(path_index[<<"x", "s">>]) = 1
    /\ Len(path_index[<<"y", "s">>]) = 1
    /\ Cardinality(DOMAIN path_index) = 3

----------------------------------------------------------------------------
(* The track phase of main(), as a real run and as a dry run *)

\* The media_file table of the track phase: file 1, and two files whose paths
\* differ in case only.
PhaseFiles ==
    <<[id |-> 1, path |-> <<"x", "s">>, album_id |-> Some(1), artist_id |-> Some(1),
       created_at |-> None],
      [id |-> 2, path |-> <<"y", "s">>, album_id |-> Some(1), artist_id |-> None,
       created_at |-> None],
      [id |-> 3, path |-> <<"y", "S">>, album_id |-> None, artist_id |-> Some(1),
       created_at |-> None]>>

\* A Play Date UTC that is not a <date> of the plist.
NotADatetime == Some([is_datetime |-> FALSE, at |-> 0])

\* Tracks of the library: one matched to file 1; one whose full path stands for
\* files 2 and 3; one whose file is not in Navidrome; one without a Location;
\* one whose Location has an empty path; one whose only value is a Play Date UTC
\* that is not a datetime.
PhaseTracks ==
    {[Location |-> Some(<<"C:", "x", "S">>), PlayCount |-> Some(2), Rating |-> Some(60),
      PlayDateUTC |-> Datetime(2), DateAdded |-> None],
     [Location |-> Some(<<"y", "s">>), PlayCount |-> Some(1), Rating |-> None,
      PlayDateUTC |-> None, DateAdded |-> None],
     [Location |-> Some(<<"x", "t">>), PlayCount |-> Some(1), Rating |-> Some(100),
      PlayDateUTC |-> None, DateAdded |-> None],
     [Location |-> None, PlayCount |-> Some(1), Rating |-> None,
      PlayDateUTC |-> None, DateAdded |-> None],
     [Location |-> Some(EmptyPath), PlayCount |-> Some(1), Rating |-> None,
      PlayDateUTC |-> None, DateAdded |-> None],
     [Location |-> Some(<<"C:", "x", "S">>), PlayCount |-> None, Rating |-> None,
      PlayDateUTC |-> NotADatetime, DateAdded |-> None]}

PhaseLibraries == UNION {[1..n -> PhaseTracks] : n \in 1..MaxTracks}

\* The options of the track phase: any of play counts, ratings and play dates.
PhaseImportOptions ==
    {o \in AllImportOptions : ~o.import_date_added /\ ~o.import_playlists}

PhaseDatabases ==
    {Tables(<< >>, PhaseFiles, << >>), Tables(<<ForeignRow(TRUE)>>, PhaseFiles, << >>)}

InitPhase ==
    /\ committed \in PhaseDatabases
    /\ before_run = committed
    /\ media_file = committed.media_file
    /\ annotation = committed.annotation
    /\ playlist = committed.playlist
    /\ has_rated_at = TRUE
    /\ path_index = BuildNavidromePathIndex(media_file)
    /\ args \in [dry_run : BOOLEAN, replace : BOOLEAN, user_id : {1}]
    /\ import_options \in PhaseImportOptions
    /\ tracks \in PhaseLibraries
    /\ playlists = << >>
    /\ pc = "tracks"
    /\ idx = 1
    /\ stats = NoStats
    /\ date_added_stats = NoDateAddedStats
    /\ playlist_stats = NoPlaylistStats
    /\ not_found_paths = << >>
    /\ ambiguous_matches = << >>
    /\ last = NoCall
    /\ ncalls = 0

NextPhase ==
    \/ TrackStep
    \/ TracksDone
    \/ DateAddedDone
    \/ PlaylistsDone
    \/ Commit

SpecPhase == InitPhase /\ [][NextPhase]_vars

----------------------------------------------------------------------------
(* Properties of the track phase *)

\* Why migrate_track leaves a track alone, from the track itself: "none" when it
\* is merged.
SkipReason(track) ==
    LET itunes_path == ExtractPathFromItunesLocation(track.Location)
    IN  IF track.Location = None THEN "no_location"
        ELSE IF /\ import_options.import_play_counts => OrZero(track.PlayCount) = 0
                /\ import_options.import_ratings => OrZero(track.Rating) = 0
                /\ import_options.import_play_dates =>
                      (track.PlayDateUTC = None \/ ~track.PlayDateUTC[1].is_datetime)
             THEN "no_data"
        ELSE IF itunes_path = None \/ itunes_path = EmptyPath THEN "path_error"
        ELSE IF FindMatchingMediaFile(itunes_path, path_index).match = None THEN "not_found"
        ELSE "none"

\* C24: in a real run, an iteration of the track loop on a track without
\* Location, without a value to migrate under the selected options, with an
\* empty converted path or without a matching file increments total and the
\* counter of that reason (and records the path of an unmatched track), writes
\* to no table, and leaves the loop at the next track; when the loop is over
\* every track has been counted.
C24_SkippedRecordIsCountedOnly ==
    /\ [][(~args.dry_run /\ pc = "tracks" /\ idx' = idx + 1
              /\ SkipReason(tracks[idx]) # "none") =>
            /\ stats' = [stats EXCEPT !.total = @ + 1, ![SkipReason(tracks[idx])] = @ + 1]
            /\ not_found_paths' =
                 IF SkipReason(tracks[idx]) = "not_found"
                 THEN Append(not_found_paths,
                             ExtractPathFromItunesLocation(tracks[idx].Location))
                 ELSE not_found_paths
            /\ annotation' = annotation
            /\ media_file' = media_file
            /\ playlist' = playlist
            /\ committed' = committed
            /\ pc' = "tracks"]_vars
    /\ []((~args.dry_run /\ ImportsAnnotations /\ pc # "tracks") =>
            stats.total = Len(tracks))

\* C24 witness: a real run has committed the merge of its second track after
\* counting its first, which has no Location.
C24_Witness ==
    /\ ~args.dry_run
    /\ pc = "done"
    /\ Len(tracks) = 2
    /\ tracks[1].Location = None
    /\ stats.no_location = 1
    /\ stats.matched = 1
    /\ stats.total = 2
    /\ Len(committed.annotation) > Len(before_run.annotation)

\* C25: when a Replace-mode run has committed, the play_count of the annotation
\* of an album (artist) is the sum of the play counts of the run's matched tracks
\* of that album (artist).
C25_ReplaceAggregatesPlayCounts ==
    (args.replace /\ pc = "done" /\ ImportsAnnotations) =>
        \A item_type \in {"album", "artist"}, item_id \in ItemIds :
            LET hits == RowsWhere(committed.annotation, args.user_id, item_id, item_type)
            IN  hits # {} =>
                  committed.annotation[Min(hits)].play_count
                      = Some(RoutedSum(item_type, item_id, Len(tracks)))

----------------------------------------------------------------------------
(* The playlist phase of main(), run again and again *)

\* The tracks the playlists are made of: one in Navidrome, one not.
ListTracks ==
    <<[Location |-> Some(<<"C:", "x", "S">>), PlayCount |-> Some(1), Rating |-> None,
       PlayDateUTC |-> None, DateAdded |-> None],
      [Location |-> Some(<<"y", "t">>), PlayCount |-> Some(1), Rating |-> None,
       PlayDateUTC |-> None, DateAdded |-> None]>>

\* User playlists: two named "A" with different tracks, one "B", and one none
\* of whose tracks is in Navidrome.
SourcePlaylists ==
    {[name |-> "A", tracks |-> <<ListTracks[1]>>],
     [name |-> "A", tracks |-> <<ListTracks[1], ListTracks[2]>>],
     [name |-> "B", tracks |-> <<ListTracks[1]>>],
     [name |-> "C", tracks |-> <<ListTracks[2]>>]}

PlaylistLibraries == UNION {[1..n -> SourcePlaylists] : n \in 1..MaxLists}

\* The playlist table before the first run: empty, or an "A" of user 1, or an
\* "A" of another user.
ListDatabases ==
    {Tables(<< >>, RunFiles, << >>),
     Tables(<< >>, RunFiles, <<ExistingPlaylist>>),
     Tables(<< >>, RunFiles, <<[ExistingPlaylist EXCEPT !.owner_id = 2]>>)}

InitLists ==
    /\ committed \in ListDatabases
    /\ before_run = committed
    /\ media_file = committed.media_file
    /\ annotation = committed.annotation
    /\ playlist = committed.playlist
    /\ has_rated_at = TRUE
    /\ path_index = BuildNavidromePathIndex(media_file)
    /\ args \in [dry_run : BOOLEAN, replace : {FALSE}, user_id : {1}]
    /\ import_options = [import_play_counts |-> FALSE, import_ratings |-> FALSE,
                         import_play_dates |-> FALSE, import_date_added |-> FALSE,
                         import_playlists |-> TRUE]
    /\ tracks = ListTracks
    /\ playlists \in PlaylistLibraries
    /\ pc = "tracks"
    /\ idx = 1
    /\ stats = NoStats
    /\ date_added_stats = NoDateAddedStats
    /\ playlist_stats = NoPlaylistStats
    /\ not_found_paths = << >>
    /\ ambiguous_matches = << >>
    /\ last = [op |-> "main", first |-> committed]
    /\ ncalls = 0

NextLists ==
    \/ TracksDone
    \/ DateAddedDone
    \/ PlaylistStep
    \/ PlaylistsDone
    \/ Commit
    \/ RunAgain

SpecLists == InitLists /\ [][NextLists]_vars

\* No two rows of a playlist table have the same name and owner.
NoDuplicatePlaylists(table) ==
    \A j, k \in 1..Len(table) :
        (table[j].name = table[k].name /\ table[j].owner_id = table[k].owner_id) => j = k

\* C26: in a real run, migrate_playlist on a source playlist whose name the owner
\* already has in the playlist table counts it as skipped_exists and leaves the
\* table as it was; so on a database that began without two playlists of one
\* name and owner, the table inside the transaction and the committed table
\* never hold two, whatever the source playlists and however many runs.
C26_NoDuplicatePlaylistNames ==
    /\ [](NoDuplicatePlaylists(playlist) /\ NoDuplicatePlaylists(committed.playlist))
    /\ [][(~args.dry_run /\ pc = "playlists" /\ idx' = idx + 1
              /\ \E k \in 1..Len(playlist) :
                    /\ playlist[k].name = playlists[idx].name
                    /\ playlist[k].owner_id = args.user_id) =>
            /\ playlist' = playlist
            /\ playlist_stats'.skipped_exists = playlist_stats.skipped_exists + 1
            /\ playlist_stats'.created = playlist_stats.created]_vars

\* C26 witness: the second real run of a library of two playlists named "A" has
\* committed, on a database where another user has an "A": the first run
\* created one "A" for the owner and skipped the other, the second skipped both.
C26_Witness ==
    /\ ~args.dry_run
    /\ pc = "done"
    /\ ncalls = 1
    /\ Len(playlists) = 2
    /\ playlists[1].name = "A"
    /\ playlists[2].name = "A"
    /\ playlists[1] # playlists[2]
    /\ playlist_stats.skipped_exists = 2
    /\ Len(committed.playlist) = 2
    /\ committed.playlist[1].owner_id = 2
    /\ committed.playlist[2].owner_id = 1
    /\ committed.playlist[2].name = "A"

----------------------------------------------------------------------------
(* The matcher on paths with accented names *)

\* File names: a name in its decomposed and in its composed spelling, the same
\* decomposed name in lower case, and a plain name.
AccentFiles == {"Cafe+U0301", "Caf+U00E9", "cafe+U0301", "t"}

RECURSIVE AccentPathsOfLength(_)
AccentPathsOfLength(n) ==
    IF n = 1 THEN {<<f>> : f \in AccentFiles}
    ELSE {<<"x">> \o p : p \in AccentPathsOfLength(n - 1)}

AccentPaths == UNION {AccentPathsOfLength(n) : n \in 1..MaxDepth}

AccentTables ==
    UNION {{[k \in 1..n |-> MediaFileRow(k, paths[k])] :
                paths \in [1..n -> AccentPaths]} : n \in 1..MaxFiles}

InitAccent ==
    /\ media_file \in AccentTables
    /\ path_index = BuildNavidromePathIndex(media_file)
    /\ ambiguous_matches = << >>
    /\ annotation = << >>
    /\ has_rated_at = FALSE
    /\ NoRun
    /\ last = NoCall
    /\ ncalls = 0

NextAccent == \E itunes_path \in AccentPaths, supplied \in BOOLEAN : Find(itunes_path, supplied)

SpecAccent == InitAccent /\ [][NextAccent]_vars

\* The composed spelling of a name, composed names and plain names being their
\* own.
Composed(segment) ==
    IF segment = "Cafe+U0301" THEN "Caf+U00E9"
    ELSE IF segment = "cafe+U0301" THEN "caf+U00E9"
    ELSE segment

ComposedPath(path) == [k \in 1..Len(path) |-> Composed(path[k])]

\* The media_file table with every path stored in composed form.
ComposedTable == [k \in 1..Len(media_file) |-> [media_file[k] EXCEPT !.path = ComposedPath(@)]]

\* C27: a decomposed and a composed spelling of a path normalise to the same
\* path, and a lookup returns the record (by id) and the branch it would return
\* if the source path and every path of the table were stored in composed form.
C27_DecomposedMatchesComposed ==
    /\ NormalizeUnicode(<<"x", "Cafe+U0301">>) = NormalizeUnicode(<<"x", "Caf+U00E9">>)
    /\ \A k \in 1..Len(media_file) :
          NormalizeUnicode(media_file[k].path) = ComposedPath(media_file[k].path)
    /\ last.op = "find" =>
          LET composed == FindMatchingMediaFile(ComposedPath(last.itunes_path),
                                                BuildNavidromePathIndex(ComposedTable))
          IN  /\ last.branch = composed.branch
              /\ (last.match = None) = (composed.match = None)
              /\ last.match # None => last.match[1].id = composed.match[1].id

\* C27 witness: a decomposed source path found, as its unique match, the one
\* record whose path is stored composed, beside a record of another name.
C27_Witness ==
    /\ last.op = "find"
    /\ last.itunes_path = <<"x", "Cafe+U0301">>
    /\ Len(media_file) = 2
    /\ media_file[1].path = <<"t">>
    /\ media_file[2].path = <<"x", "Caf+U00E9">>
    /\ last.branch = "unique"
    /\ last.match # None
    /\ last.match[1].id = 2

\* C28: at every point of a run, in Add mode and in Replace mode, every
\* annotation that existed when the run began holds the play_count it had then
\* if play counts are not selected, the rating it had then if ratings are not
\* selected, and the play_date it had then if play dates are not selected (a
\* NULL count or rating being the same as 0).
C28_UnselectedFieldsUntouched ==
    \A k \in 1..Len(before_run.annotation) :
        /\ ~import_options.import_play_counts =>
              OrZero(annotation[k].play_count) = OrZero(before_run.annotation[k].play_count)
        /\ ~import_options.import_ratings =>
              OrZero(annotation[k].rating) = OrZero(before_run.annotation[k].rating)
        /\ ~import_options.import_play_dates =>
              annotation[k].play_date = before_run.annotation[k].play_date


\* The counters and the two lists after migrate_track (dry = FALSE) or
\* check_track_for_dry_run (dry = TRUE) has processed the first n tracks.
RECURSIVE PhaseResult(_, _)
PhaseResult(n, dry) ==
    IF n = 0
    THEN [stats |-> NoStats, not_found_paths |-> << >>, ambiguous_matches |-> << >>]
    ELSE LET before == PhaseResult(n - 1, dry)
             outcome == TrackOutcome(tracks[n], import_options, path_index, dry)
         IN  [stats |-> Bump(Bump(before.stats, "total"), outcome.counter),
              not_found_paths |->
                  IF outcome.counter = "not_found"
                  THEN Append(before.not_found_paths, outcome.itunes_path)
                  ELSE before.not_found_paths,
              ambiguous_matches |-> before.ambiguous_matches \o outcome.found.entries]

\* C29: when the track loop of a dry run is over, the counters, the list of
\* unmatched paths and the list of ambiguous matches are the ones migrate_track
\* produces for the same tracks, index and import options.
C29_DryRunMirrorsMigration ==
    (args.dry_run /\ ImportsAnnotations /\ pc # "tracks") =>
        /\ stats = PhaseResult(Len(tracks), FALSE).stats
        /\ not_found_paths = PhaseResult(Len(tracks), FALSE).not_found_paths
        /\ ambiguous_matches = PhaseResult(Len(tracks), FALSE).ambiguous_matches


\* C30: between two tracks of the track loop, in a real run and in a dry run,
\* total is the number of tracks processed and the sum of matched, not_found,
\* no_location, no_data and path_error; there are as many recorded unmatched
\* paths as not_found says, and at most as many recorded ambiguous matches as
\* matched says.
C30_CountersAddUp ==
    (pc = "tracks" /\ ImportsAnnotations) =>
        /\ stats.total = idx - 1
        /\ stats.total = stats.matched + stats.not_found + stats.no_location
                           + stats.no_data + stats.path_error
        /\ Len(not_found_paths) = stats.not_found
        /\ Len(ambiguous_matches) <= stats.matched

\* C30 witness: the loop stands after its second track, having counted one
\* ambiguous match and one unmatched track.
C30_Witness ==
    /\ pc = "tracks"
    /\ idx = 3
    /\ stats.matched = 1
    /\ Len(ambiguous_matches) = 1
    /\ stats.not_found = 1
    /\ Len(not_found_paths) = 1

=========================================================================
